---- MODULE Spec2Model ----
(***************************************************************************)
(* A model of the writer subsystem of libarchive-rust (src/writer.rs and   *)
(* src/error.rs): the Builder -> Writer consuming open, the Disk sink with *)
(* its setters, and the streaming write() pipeline that copies entries and *)
(* data blocks from a Reader into the Disk.                                *)
(*                                                                         *)
(* The native library (libarchive) is the environment: every native call   *)
(* returns a status chosen by the environment and may leave any error code *)
(* and message on the handle it was made on.  The Reader and the Entry     *)
(* accessors live outside writer.rs; they are modelled by their interface. *)
(*                                                                         *)
(* The specifications share the variables.  Spec drives a Disk and the     *)
(* write() pipeline; SpecBuilder drives a Builder and the Writer it opens. *)
(* The two own different native handles and share no state.  SpecLive is   *)
(* the write() pipeline alone, with the fairness of a running call.        *)
(***************************************************************************)
EXTENDS Integers, Sequences, FiniteSets, TLC

\* ------------------------------------------------------------------ bounds

\* Entries one source yields at most.
MaxEntries == 2
\* Largest declared size of an entry, in bytes.
MaxSize == 2
\* add_filter / set_format calls made on one Builder at most.
MaxConfig == 2

\* ------------------------------------------------- native library interface

\* Status codes a native call on a write handle returns.
SinkStatuses == {"ARCHIVE_OK", "ARCHIVE_WARN", "ARCHIVE_FATAL"}
\* archive_read_data_block additionally reports the end of an entry's data.
ReadStatuses == SinkStatuses \cup {"ARCHIVE_EOF"}
\* What err_code() / err_msg() can read from a handle.
NoError == [code |-> 0, msg |-> ""]
HandleErrors == {NoError, [code |-> 22, msg |-> "Invalid argument"]}
\* The error state of a handle after a native call that returned st: an OK
\* (or end-of-data) call leaves it alone, a failed call leaves any state,
\* code 0 included.
AfterCall(st, h) == IF st \in {"ARCHIVE_OK", "ARCHIVE_EOF"} THEN {h} ELSE HandleErrors

\* ------------------------------------------------------------- error.rs

OkUnit == [kind |-> "Ok", code |-> 0, msg |-> "", bytes |-> 0]
OkBytes(n) == [kind |-> "Ok", code |-> 0, msg |-> "", bytes |-> n]
Consumed == [kind |-> "Consumed", code |-> 0, msg |-> "", bytes |-> 0]
HeaderPosition == [kind |-> "HeaderPosition", code |-> 0, msg |-> "", bytes |-> 0]
Sys(c, m) == [kind |-> "Sys", code |-> c, msg |-> m, bytes |-> 0]
\* A call that has not returned yet.
Running == [kind |-> "Running", code |-> 0, msg |-> "", bytes |-> 0]

\* From<&Handle> for ErrCode
ErrCodeFrom(h) == h.code
\* From<&Handle> for ArchiveError
ArchiveErrorFrom(h) == Sys(ErrCodeFrom(h), h.msg)
\* A conversion that reports every handle as failed, whatever its code.
ArchiveResultAlwaysErr(h) == ArchiveErrorFrom(h)
\* From<&Handle> for ArchiveResult<()>
ArchiveResultFrom(h) == IF h.code = 0 THEN OkUnit ELSE ArchiveErrorFrom(h)

IsErr(r) == r.kind \in {"Consumed", "Sys", "ReadFailure", "WriteFailure", "HeaderPosition"}

\* The result of a call that maps a native status the way every setter does:
\*   match native(..) { ARCHIVE_OK => Ok(()), _ => ArchiveResult::from(self) }
SetterResult(st, h) == IF st = "ARCHIVE_OK" THEN OkUnit ELSE ArchiveResultFrom(h)

\* ------------------------------------------------------------------ paths

\* A path is a sequence of tokens; "/" is the separator.  An optional path
\* is a sequence of at most one path: <<>> is None, <<p>> is Some(p).
Sep == "/"
None == <<>>
Some(p) == <<p>>
IsSome(o) == Len(o) > 0
Unwrap(o) == o[1]

IsAbsolute(p) == Len(p) > 0 /\ p[1] = Sep
\* Path::new(base).join(p): an absolute p replaces base; otherwise p is
\* appended, after a separator unless base is empty or already ends in one.
Join(base, p) ==
    IF IsAbsolute(p) THEN p
    ELSE IF Len(base) = 0 \/ base[Len(base)] = Sep THEN base \o p
    ELSE base \o <<Sep>> \o p
\* prefix + "/" + path, as plain text.
Concat(base, p) == base \o <<Sep>> \o p

Pathnames == {<<"a.txt">>, <<Sep, "a.txt">>}
Links == {None, Some(<<"a.txt">>)}
Prefixes == {None, Some(<<"root">>)}

\* ------------------------------------------------------ entries (archive.rs)

\* The entries a source can yield: pathname, optional hardlink, declared size.
Entries == [pathname : Pathnames, hardlink : Links, size : -1..MaxSize]
NoEntry == [pathname |-> <<>>, hardlink |-> None, size |-> 0]
\* Entry::set_pathname / Entry::set_link
SetPathname(e, p) == [e EXCEPT !.pathname = p]
SetLink(e, p) == [e EXCEPT !.hardlink = Some(p)]

\* The prefix rewrite of write(): lines 114-121.
Rewrite(pfx, e) ==
    IF IsSome(pfx)
    THEN LET e1 == SetPathname(e, Join(Unwrap(pfx), e.pathname))
         IN  IF IsSome(e1.hardlink)
             THEN SetLink(e1, Join(Unwrap(pfx), Unwrap(e1.hardlink)))
             ELSE e1
    ELSE e

\* ---------------------------------------------------------------- state

VARIABLES
    \* Disk: the value ("live", "dropped"), the archive_write_free calls made
    \* on its handle, and the handle's current error.
    disk, diskFrees, sinkErr,
    \* Reader: header_position(), whether next_header() has reported the end,
    \* the reader handle's current error, and the bytes of the current entry's
    \* data the reader has not delivered yet.
    hpos, exhausted, srcErr, remaining,
    \* The frame of a running write(): where it is, its arguments and locals.
    pc, prefix, bytes, writePending, entry, blk,
    \* The last operation called, what it returned, and the status of the
    \* last native call it made.
    lastOp, result, lastSt,
    \* Observation of the current (or last) write() call: native calls made by
    \* kind, the entry as the source yielded it, the header last passed to the
    \* sink, data bytes written to the sink, the native call whose failure made
    \* write() return, whether a header write was refused, the header position
    \* the call found, whether the call was made on a source that an earlier
    \* write had already run to the end of, and whether a write on the current
    \* source has run to the end.
    n, orig, hdr, copied, cause, hdrFailed, startPos, again, full,
    \* Observation of the entry the loop is on: its data phases, the blocks
    \* the source returned with OK, the block writes made and the ends of
    \* data reported (ent); the block last passed to the sink (sunk); the sum
    \* of the sizes the ends of data reported during the call (eofSum); and
    \* the side whose block call was refused (dataFailed).
    ent, sunk, eofSum, dataFailed,
    \* Builder and Writer: the values, the flag, the archive_write_free calls
    \* made on the shared handle, the handle's error, the native calls made on
    \* the handle, the configuration calls made, and the filter or format the
    \* last one chose.
    builder, consumed, writer, frees, bErr, bCalls, nconf, bArg

diskVars == <<disk, diskFrees, sinkErr>>
readerVars == <<hpos, exhausted, srcErr, remaining>>
frameVars == <<pc, prefix, bytes, writePending, entry, blk>>
retVars == <<lastOp, result, lastSt>>
obsVars == <<n, orig, hdr, copied, cause, hdrFailed, startPos, again, full,
             ent, sunk, eofSum, dataFailed>>
builderVars == <<builder, consumed, writer, frees, bErr, bCalls, nconf, bArg>>
vars == <<diskVars, readerVars, frameVars, retVars, obsVars, builderVars>>

NoCalls == [next |-> 0, header |-> 0, read |-> 0, put |-> 0, finish |-> 0]
Total(c) == c.next + c.header + c.read + c.put + c.finish
NoBlock == [size |-> 0, offset |-> 0]
NoEnt == [phases |-> 0, oks |-> 0, puts |-> 0, eofs |-> 0]

Init ==
    /\ disk = "live" /\ diskFrees = 0 /\ sinkErr = NoError
    /\ hpos = 0 /\ exhausted = FALSE /\ srcErr = NoError /\ remaining = 0
    /\ pc = "idle" /\ prefix = None /\ bytes = 0 /\ writePending = FALSE
    /\ entry = NoEntry /\ blk = NoBlock
    /\ lastOp = "new" /\ result = OkUnit /\ lastSt = "ARCHIVE_OK"
    /\ n = NoCalls /\ orig = NoEntry /\ hdr = NoEntry /\ copied = 0
    /\ cause = "none" /\ hdrFailed = FALSE /\ startPos = 0 /\ again = FALSE
    /\ full = FALSE
    /\ ent = NoEnt /\ sunk = NoBlock /\ eofSum = 0 /\ dataFailed = "none"
    /\ builder = "live" /\ consumed = FALSE /\ writer = "none" /\ frees = 0
    /\ bErr = NoError /\ bCalls = 0 /\ nconf = 0 /\ bArg = "none"

\* The observation is of the most recent call: the next one starts it afresh.
Forget ==
    /\ prefix' = None /\ n' = NoCalls /\ orig' = NoEntry /\ hdr' = NoEntry
    /\ copied' = 0 /\ cause' = "none" /\ hdrFailed' = FALSE
    /\ startPos' = 0 /\ again' = FALSE
    /\ ent' = NoEnt /\ sunk' = NoBlock /\ eofSum' = 0 /\ dataFailed' = "none"

\* write() returns r: its locals are gone.
Return(r) ==
    /\ result' = r /\ pc' = "idle"
    /\ bytes' = 0 /\ writePending' = FALSE /\ entry' = NoEntry /\ blk' = NoBlock

\* ------------------------------------------------------------ Disk setters

\* A close that frees the handle instead of closing it.
CloseReleases(op) == IF op = "close" THEN 1 ELSE 0
\* The archive_write_free calls a setter or close makes: none.
SetterFrees(op) == 0

\* set_bytes_per_block, set_bytes_in_last_block, set_options,
\* set_standard_lookup and close all have one shape: one native call on the
\* Disk's handle, mapped by SetterResult.  No write() is running (the API is
\* synchronous and single-threaded).
DiskSetter(op) ==
    /\ disk = "live" /\ pc = "idle"
    /\ diskFrees' = diskFrees + SetterFrees(op)
    /\ \E st \in SinkStatuses :
         \E e \in AfterCall(st, sinkErr) :
            /\ sinkErr' = e
            /\ lastSt' = st
            /\ result' = SetterResult(st, e)
    /\ lastOp' = op
    /\ Forget
    /\ UNCHANGED <<disk, readerVars, pc, bytes, writePending, entry, blk, full,
                   builderVars>>

SetBytesPerBlock == DiskSetter("set_bytes_per_block")
SetBytesInLastBlock == DiskSetter("set_bytes_in_last_block")
SetOptions == DiskSetter("set_options")
SetStandardLookup == DiskSetter("set_standard_lookup")
Close == DiskSetter("close")

\* Drop for Disk: the archive_write_free calls it makes.
DiskDropFrees == 1

\* Drop for Disk: archive_write_free on the handle.  The value is gone
\* afterwards, so no method can be called on it again.
DropDisk ==
    /\ disk = "live" /\ pc = "idle"
    /\ disk' = "dropped"
    /\ diskFrees' = diskFrees + DiskDropFrees
    /\ lastOp' = "drop_disk"
    /\ UNCHANGED <<sinkErr, readerVars, frameVars, result, lastSt, obsVars,
                   builderVars>>

\* The caller takes another source: a Reader it has pulled hp entries from
\* itself (none, for a fresh one).
NewSource ==
    /\ disk = "live" /\ pc = "idle"
    /\ \E hp \in 0..MaxEntries : hpos' = hp
    /\ exhausted' = FALSE /\ srcErr' = NoError /\ remaining' = 0
    /\ full' = FALSE
    /\ lastOp' = "new_source" /\ result' = OkUnit
    /\ Forget
    /\ UNCHANGED <<diskVars, pc, bytes, writePending, entry, blk, lastSt,
                   builderVars>>

\* ------------------------------------------------------------ Disk::write

\* A write() that skips the header-position check.
PositionUnchecked(hp) == TRUE
\* A write() whose header-position check is the wrong way round.
PositionInverted(hp) == hp # 0
\* The precondition of write(): reader.header_position() != 0 fails.
PositionOk(hp) == hp = 0

\* write() is called: the header-position check, then the locals.
WriteStart ==
    /\ disk = "live" /\ pc = "idle"
    /\ \E pfx \in Prefixes : prefix' = pfx
    /\ lastOp' = "write"
    /\ n' = NoCalls /\ orig' = NoEntry /\ hdr' = NoEntry /\ copied' = 0
    /\ cause' = "none" /\ hdrFailed' = FALSE
    /\ startPos' = hpos /\ again' = full
    /\ ent' = NoEnt /\ sunk' = NoBlock /\ eofSum' = 0 /\ dataFailed' = "none"
    /\ IF PositionOk(hpos)
       THEN /\ pc' = "next" /\ result' = Running
            /\ bytes' = 0 /\ writePending' = FALSE
            /\ UNCHANGED <<entry, blk>>
       ELSE Return(HeaderPosition)
    /\ UNCHANGED <<diskVars, readerVars, lastSt, full, builderVars>>

\* What the header position is after the reader has pulled one more entry.
Advance(hp) == hp + 1

\* The top of the loop: reader.next_header(), and the prefix rewrite of the
\* entry it yields.  None ends the loop.
WriteNextHeader ==
    /\ pc = "next"
    /\ n' = [n EXCEPT !.next = @ + 1]
    /\ \/ /\ ~exhausted /\ hpos < MaxEntries
          /\ \E e \in Entries :
               /\ orig' = e
               /\ entry' = Rewrite(prefix, e)
               /\ remaining' = IF e.size > 0 THEN e.size ELSE 0
          /\ hpos' = Advance(hpos)
          /\ pc' = "header"
          /\ ent' = NoEnt /\ sunk' = NoBlock
          /\ UNCHANGED exhausted
       \/ /\ exhausted' = TRUE
          /\ pc' = "finish"
          /\ UNCHANGED <<hpos, remaining, orig, entry, ent, sunk>>
    /\ UNCHANGED <<diskVars, srcErr, prefix, bytes, writePending, blk, retVars,
                   hdr, copied, cause, hdrFailed, startPos, again, full,
                   eofSum, dataFailed, builderVars>>

\* write_header(entry): one native call, mapped like a setter.
WriteHeaderResult(st, h) == SetterResult(st, h)
\* A size test that takes an empty entry to have data.
HasDataOrEmpty(e) == e.size >= 0
\* Whether the entry has data to copy: entry.size() > 0.
HasData(e) == e.size > 0
\* A loop that ends after an entry with no data to copy.
AfterHeaderBreak(pending) == IF pending THEN "read" ELSE "finish"
\* Where the loop goes after the header: into write_data if data is pending,
\* else round to the next entry.  Nothing is called on the sink in between.
AfterHeader(pending) == IF pending THEN "read" ELSE "next"

\* self.write_header(entry), the match on its result, and the size test.
WriteHeader ==
    /\ pc = "header"
    /\ n' = [n EXCEPT !.header = @ + 1]
    /\ hdr' = entry
    /\ \E st \in SinkStatuses :
         \E e \in AfterCall(st, sinkErr) :
            /\ sinkErr' = e
            /\ lastSt' = st
            /\ hdrFailed' = (hdrFailed \/ st # "ARCHIVE_OK")
            /\ LET r == WriteHeaderResult(st, e)
               IN  IF IsErr(r)
                   THEN Return(r) /\ cause' = "header" /\ UNCHANGED ent
                   ELSE /\ writePending' = (writePending \/ HasData(entry))
                        /\ pc' = AfterHeader(writePending')
                        /\ ent' = IF writePending'
                                  THEN [ent EXCEPT !.phases = @ + 1]
                                  ELSE ent
                        /\ blk' = NoBlock
                        /\ UNCHANGED <<result, cause, bytes, entry>>
    /\ UNCHANGED <<disk, diskFrees, readerVars, prefix, lastOp, orig, copied,
                   startPos, again, full, sunk, eofSum, dataFailed,
                   builderVars>>

\* A write_data that adds up the blocks it has written.
DataResultSum(eofSize, sum) == sum
\* What write_data returns when the source reports the end of the data: the
\* size the terminating call reported (sum is what the blocks added up to).
DataResult(eofSize, sum) == eofSize
\* A write_data that maps a failed block read the way the setters do.
ReadErrorAsResult(h) == ArchiveResultFrom(h)
\* The error write_data returns when the block read fails.
ReadError(h) == ArchiveErrorFrom(h)
\* A write_data that asks again for a block the source warned about.
RetryOnWarn(st) == st = "ARCHIVE_WARN"
\* Whether write_data repeats a block read that returned st (neither OK nor
\* the end of data): the catch-all arm returns, whatever the status.
RetryRead(st) == FALSE
\* A write_data that writes every block at the start of the file.
BlockAtStart(b) == [b EXCEPT !.offset = 0]
\* The block write_data passes to archive_write_data_block for the block b
\* that archive_read_data_block returned: the same size and offset.
BlockToWrite(b) == b
\* The error write_data returns when the block write fails.
WriteError(h) == ArchiveErrorFrom(h)

\* The block reads one write() makes at most: for each entry the source can
\* yield, one per byte and the one that ends the data.  write_data never
\* gets there with a read still to make.
MaxReads == MaxEntries * (MaxSize + 1)

\* write_data: archive_read_data_block on the reader's handle.
WriteDataRead ==
    /\ pc = "read" /\ n.read < MaxReads
    /\ n' = [n EXCEPT !.read = @ + 1]
    /\ \/ /\ remaining > 0
          /\ \E k \in 1..remaining :
               /\ blk' = [size |-> k, offset |-> entry.size - remaining]
               /\ remaining' = remaining - k
          /\ lastSt' = "ARCHIVE_OK"
          /\ pc' = "put"
          /\ ent' = [ent EXCEPT !.oks = @ + 1]
          /\ UNCHANGED <<srcErr, bytes, writePending, entry, result, cause,
                         sunk, eofSum, dataFailed>>
       \/ /\ remaining = 0
          /\ \E s \in 0..MaxSize :
               /\ bytes' = bytes + DataResult(s, entry.size)
               /\ eofSum' = eofSum + s
          /\ blk' = NoBlock /\ sunk' = NoBlock
          /\ lastSt' = "ARCHIVE_EOF"
          /\ writePending' = FALSE
          /\ pc' = "next"
          /\ ent' = [ent EXCEPT !.eofs = @ + 1]
          /\ UNCHANGED <<srcErr, remaining, entry, result, cause, dataFailed>>
       \/ /\ \E st \in ReadStatuses \ {"ARCHIVE_OK", "ARCHIVE_EOF"} :
               \E e \in AfterCall(st, srcErr) :
                  /\ srcErr' = e
                  /\ lastSt' = st
                  /\ IF RetryRead(st)
                     THEN UNCHANGED <<frameVars, result, cause, sunk>>
                     ELSE /\ Return(ReadError(e))
                          /\ cause' = "read" /\ sunk' = NoBlock
          /\ dataFailed' = "read"
          /\ UNCHANGED <<remaining, ent, eofSum>>
    /\ UNCHANGED <<diskVars, hpos, exhausted, prefix, lastOp, orig, hdr,
                   copied, hdrFailed, startPos, again, full, builderVars>>

\* write_data: archive_write_data_block on the Disk's handle, with the block
\* just read.
WriteDataBlock ==
    /\ pc = "put"
    /\ n' = [n EXCEPT !.put = @ + 1]
    /\ ent' = [ent EXCEPT !.puts = @ + 1]
    /\ \E st \in SinkStatuses :
         \E e \in AfterCall(st, sinkErr) :
            /\ sinkErr' = e
            /\ lastSt' = st
            /\ IF st = "ARCHIVE_OK"
               THEN /\ copied' = copied + BlockToWrite(blk).size
                    /\ sunk' = BlockToWrite(blk)
                    /\ pc' = "read"
                    /\ UNCHANGED <<result, cause, bytes, writePending, entry,
                                   blk, dataFailed>>
               ELSE /\ Return(WriteError(e))
                    /\ cause' = "write" /\ dataFailed' = "write"
                    /\ sunk' = BlockToWrite(blk)
                    /\ UNCHANGED copied
    /\ UNCHANGED <<disk, diskFrees, readerVars, prefix, lastOp, orig, hdr,
                   hdrFailed, startPos, again, full, eofSum, builderVars>>

\* A write() that maps a refused finish the way the setters do.
FinishResultAsSetter(st, h, b) ==
    IF st = "ARCHIVE_OK" \/ h.code = 0 THEN OkBytes(b) ELSE ArchiveErrorFrom(h)
\* What write() returns after archive_write_finish_entry returned st and
\* left h on the handle, with b in bytes.
FinishResult(st, h, b) ==
    IF st = "ARCHIVE_OK" THEN OkBytes(b) ELSE ArchiveErrorFrom(h)

\* After the loop: archive_write_finish_entry, whose status decides the
\* result of write().
WriteFinish ==
    /\ pc = "finish"
    /\ n' = [n EXCEPT !.finish = @ + 1]
    /\ \E st \in SinkStatuses :
         \E e \in AfterCall(st, sinkErr) :
            /\ sinkErr' = e
            /\ lastSt' = st
            /\ Return(FinishResult(st, e, bytes))
            /\ IF st = "ARCHIVE_OK"
               THEN full' = TRUE /\ UNCHANGED cause
               ELSE cause' = "finish" /\ UNCHANGED full
    /\ UNCHANGED <<disk, diskFrees, readerVars, prefix, lastOp, orig, hdr,
                   copied, hdrFailed, startPos, again, ent, sunk, eofSum,
                   dataFailed, builderVars>>

\* ------------------------------------------------------- Builder, Writer

\* The variants of WriteFilter and WriteFormat; each selects one native call.
Filters ==
    {"B64Encode", "Bzip2", "Compress", "Grzip", "Gzip", "Lrzip", "Lzip",
     "Lzma", "Lzop", "None", "Program", "UuEncode", "Xz"}
Formats ==
    {"SevenZip", "ArBsd", "ArSvr4", "Cpio", "CpioNewc", "Gnutar", "Iso9660",
     "Mtree", "MtreeClassic", "Pax", "PaxRestricted", "Shar", "SharDump",
     "Ustar", "V7tar", "Xar", "Zip"}

\* add_filter and set_format: the native call the variant selects, on the
\* Builder's handle, mapped by SetterResult.
BuilderConfig(op, arg) ==
    /\ builder = "live" /\ nconf < MaxConfig
    /\ nconf' = nconf + 1
    /\ bCalls' = bCalls + 1
    /\ \E st \in SinkStatuses :
         \E e \in AfterCall(st, bErr) :
            /\ bErr' = e
            /\ lastSt' = st
            /\ result' = SetterResult(st, e)
    /\ lastOp' = op /\ bArg' = arg
    /\ UNCHANGED <<builder, consumed, writer, frees>>
    /\ UNCHANGED <<diskVars, readerVars, frameVars, obsVars>>

AddFilter == \E f \in Filters : BuilderConfig("add_filter", f)
SetFormat == \E f \in Formats : BuilderConfig("set_format", f)

\* A Drop for Builder that ignores the consumed flag.
BuilderDropAlways(c) == 1
\* Drop for Builder: the archive_write_free calls it makes.
BuilderDropFrees(c) == IF ~c THEN 1 ELSE 0
\* Drop for Writer: the archive_write_free calls it makes.
WriterDropFrees == 1
\* An open_file that maps a failed open the way the setters do.
OpenErrorAsResult(h) == ArchiveResultFrom(h)
\* The error open_file returns when the native open fails.
OpenError(h) == ArchiveErrorFrom(h)

\* An open_file that borrows the Builder (&mut self) and leaves it usable.
BuilderBorrowed == "live"
\* The Builder after open_file returns: open_file takes self by value, so it
\* is dropped there on every path.
BuilderAfterOpen == "dropped"

\* open_file(self, file): the consumed check, the native open, the result,
\* and the drop of self when the function returns.
OpenFile ==
    /\ builder = "live"
    /\ lastOp' = "open_file"
    /\ IF consumed
       THEN /\ result' = Consumed
            /\ frees' = frees + BuilderDropFrees(consumed)
            /\ UNCHANGED <<consumed, writer, bErr, bCalls, lastSt>>
       ELSE \E st \in SinkStatuses :
              \E e \in AfterCall(st, bErr) :
                 /\ bErr' = e
                 /\ lastSt' = st
                 /\ bCalls' = bCalls + 1
                 /\ IF st = "ARCHIVE_OK"
                    THEN consumed' = TRUE /\ writer' = "live" /\ result' = OkUnit
                    ELSE result' = OpenError(e) /\ UNCHANGED <<consumed, writer>>
                 /\ frees' = frees + BuilderDropFrees(consumed')
    /\ builder' = BuilderAfterOpen
    /\ UNCHANGED <<nconf, bArg>>
    /\ UNCHANGED <<diskVars, readerVars, frameVars, obsVars>>

\* The caller abandons the Builder without opening it.
DropBuilder ==
    /\ builder = "live"
    /\ builder' = "dropped"
    /\ frees' = frees + BuilderDropFrees(consumed)
    /\ lastOp' = "drop_builder"
    /\ UNCHANGED <<consumed, writer, bErr, bCalls, nconf, bArg, result, lastSt>>
    /\ UNCHANGED <<diskVars, readerVars, frameVars, obsVars>>

\* The caller drops the Writer a successful open returned.
DropWriter ==
    /\ writer = "live"
    /\ writer' = "dropped"
    /\ frees' = frees + WriterDropFrees
    /\ lastOp' = "drop_writer"
    /\ UNCHANGED <<builder, consumed, bErr, bCalls, nconf, bArg, result, lastSt>>
    /\ UNCHANGED <<diskVars, readerVars, frameVars, obsVars>>

\* ---------------------------------------------------------- specifications

Next ==
    \/ SetBytesPerBlock \/ SetBytesInLastBlock \/ SetOptions
    \/ SetStandardLookup \/ Close \/ DropDisk \/ NewSource
    \/ WriteStart \/ WriteNextHeader \/ WriteHeader
    \/ WriteDataRead \/ WriteDataBlock \/ WriteFinish

Spec == Init /\ [][Next]_vars

\* A step of a running write().  write() is a synchronous function: once it
\* is called its thread goes on to the next native call, and each native
\* call returns (the source is finite and each entry's data ends).
WriteStep ==
    \/ WriteNextHeader \/ WriteHeader
    \/ WriteDataRead \/ WriteDataBlock \/ WriteFinish

\* The calls that bear on whether a write returns: the write itself and the
\* change of source between writes.
NextLive == NewSource \/ WriteStart \/ WriteStep

SpecLive == Init /\ [][NextLive]_vars /\ WF_vars(WriteStep)

NextBuilder == AddFilter \/ SetFormat \/ OpenFile \/ DropBuilder \/ DropWriter

SpecBuilder == Init /\ [][NextBuilder]_vars

\* ------------------------------------------------------------------ claims

Returned(op) == lastOp = op /\ pc = "idle"

\* C1: the native handle of a Builder is released exactly once in total.
\* While the Builder or the Writer opened from it is alive nothing has been
\* released (so the drop of the consumed Builder released nothing); once the
\* Builder is gone and no Writer is alive, archive_write_free has been
\* called exactly once.
C1_ReleasedExactlyOnce ==
    /\ frees <= 1
    /\ (builder = "live" \/ writer = "live") => frees = 0
    /\ (builder = "dropped" /\ writer # "live") => frees = 1
\* A Builder was configured and opened, and the Writer it returned dropped.
C1_Witness ==
    /\ builder = "dropped" /\ writer = "dropped" /\ consumed
    /\ nconf = MaxConfig /\ frees = 1

\* C2: when the native open fails, open_file creates no Writer, leaves the
\* consumed flag false, returns an error, and the Builder's drop at the end
\* of open_file has released the handle exactly once.
C2_FailedOpen ==
    (lastOp = "open_file" /\ lastSt # "ARCHIVE_OK") =>
        /\ writer = "none"
        /\ ~consumed
        /\ IsErr(result)
        /\ builder = "dropped"
        /\ frees = 1
\* The open failed while the handle reported error code 0.
C2_Witness ==
    /\ lastOp = "open_file" /\ lastSt = "ARCHIVE_FATAL"
    /\ result = Sys(0, "") /\ frees = 1

\* C3: write() called on a source whose header position is not 0 returns
\* HeaderPosition, having made no native call on the sink or the source and
\* written no bytes; the source is where it was.
C3_HeaderPositionGuard ==
    (lastOp = "write" /\ startPos # 0) =>
        /\ pc = "idle"
        /\ result = HeaderPosition
        /\ n = NoCalls
        /\ hdr = NoEntry
        /\ copied = 0
        /\ hpos = startPos
\* write() with a prefix was refused on a source two entries in.
C3_Witness ==
    /\ Returned("write") /\ startPos = MaxEntries /\ IsSome(prefix)
    /\ result = HeaderPosition

\* The header of the entry pulled last has been passed to the sink.
HeaderPassed == n.header > 0 /\ n.header = n.next

\* C4: with a prefix, the header passed to the sink carries the pathname
\* prefix/original_pathname and, exactly when the entry has a hardlink, the
\* hardlink prefix/original_hardlink; without a prefix the header is the
\* entry as the source yielded it.
C4_PrefixedHeader ==
    HeaderPassed =>
        IF IsSome(prefix)
        THEN /\ hdr.pathname = Concat(Unwrap(prefix), orig.pathname)
             /\ hdr.hardlink =
                    IF IsSome(orig.hardlink)
                    THEN Some(Concat(Unwrap(prefix), Unwrap(orig.hardlink)))
                    ELSE None
        ELSE hdr = orig

\* C5: a successful write() returns the number of data bytes it copied from
\* the source to the sink.
C5_BytesAreBytesCopied ==
    (Returned("write") /\ result.kind = "Ok") => result.bytes = copied

\* C6: a failed block read makes write() return ReadFailure and a failed
\* block write makes it return WriteFailure.
C6_FailureVariants ==
    /\ (Returned("write") /\ cause = "read") => result.kind = "ReadFailure"
    /\ (Returned("write") /\ cause = "write") => result.kind = "WriteFailure"

\* C8 as stated: a further write() on a source that an earlier write has run
\* to the end of returns Ok(0) when no native call fails.
C8_FurtherWriteIsOkZero ==
    (Returned("write") /\ again /\ cause = "none") => result = OkBytes(0)
\* C8, amended: a further write() on such a source pulls no entry, passes no
\* header, copies no block and writes 0 bytes; it returns HeaderPosition,
\* without any native call, when the source's header position is not 0, and
\* otherwise makes the one finish call and returns Ok(0) or that call's
\* error.  close() after the full write returns Ok when the native close
\* returns OK.
C8_FurtherWrite ==
    /\ (lastOp = "write" /\ again) =>
          /\ n.header = 0 /\ n.read = 0 /\ n.put = 0 /\ copied = 0
          /\ hdr = NoEntry /\ hpos = startPos
          /\ pc = "idle" =>
                IF startPos # 0
                THEN result = HeaderPosition /\ n = NoCalls
                ELSE /\ n.next = 1 /\ n.finish = 1
                     /\ \/ result = OkBytes(0)
                        \/ cause = "finish" /\ result.kind = "Sys"
    /\ (lastOp = "close" /\ full /\ lastSt = "ARCHIVE_OK") => result = OkUnit
\* A second write() on a source whose two entries the first one copied was
\* refused.
C8_Witness ==
    /\ Returned("write") /\ again /\ startPos = MaxEntries
    /\ result = HeaderPosition

\* C9: once the native header write has returned a non-OK status, write()
\* has returned an error and does nothing more.
C9_HeaderFailureAborts ==
    hdrFailed => (pc = "idle" /\ IsErr(result) /\ cause = "header")

ConfigOps ==
    {"add_filter", "set_format", "set_bytes_per_block",
     "set_bytes_in_last_block", "set_options", "set_standard_lookup", "close"}
\* C10: a configuration call returns Ok exactly when its native call returns
\* OK and a Sys error whenever it returns anything else; it changes neither
\* the consumed flag nor who owns the handle.
C10_SetterResults ==
    lastOp \in ConfigOps =>
        /\ result = OkUnit <=> lastSt = "ARCHIVE_OK"
        /\ lastSt # "ARCHIVE_OK" => result.kind = "Sys"
        /\ ~consumed /\ frees = 0 /\ diskFrees = 0
        /\ lastOp \in {"add_filter", "set_format"} => builder = "live"
        /\ lastOp \notin {"add_filter", "set_format"} => disk = "live"

\* C11: a Disk releases its native handle exactly once, at its drop.  While
\* the Disk is alive (whatever setters, writes and closes it has run, failed
\* ones included) archive_write_free has not been called, so close released
\* nothing; once it is dropped the call has been made exactly once, no write
\* is running on the handle, and the drop is the last operation made on it.
C11_DiskReleasedOnce ==
    /\ diskFrees <= 1
    /\ disk = "live" => diskFrees = 0
    /\ disk = "dropped" => diskFrees = 1 /\ Returned("drop_disk")
    /\ lastOp = "close" => disk = "live" /\ diskFrees = 0
\* A Disk dropped after a write that a failed block write aborted.
C11_Witness ==
    /\ disk = "dropped" /\ diskFrees = 1
    /\ cause = "write" /\ IsErr(result) /\ n.put > 0

DiskSetterOps ==
    {"set_bytes_per_block", "set_bytes_in_last_block", "set_options",
     "set_standard_lookup", "close"}

\* C12: the conversion from a handle to a Result<()> gives Ok(()) if and only
\* if the handle's current error code is 0, and otherwise Sys carrying the
\* handle's current code and message.  It is observed where the code applies
\* it: in the result of a Disk setter whose native call did not return OK,
\* against the error the handle holds when the setter returns.
C12_ResultFromHandle ==
    (Returned(lastOp) /\ lastOp \in DiskSetterOps /\ lastSt # "ARCHIVE_OK") =>
        /\ (result = OkUnit) <=> (sinkErr.code = 0)
        /\ sinkErr.code # 0 => result = Sys(sinkErr.code, sinkErr.msg)
\* A refused set_options on a handle that holds error 22.
C12_Witness ==
    /\ Returned("set_options") /\ lastSt = "ARCHIVE_FATAL"
    /\ sinkErr.code = 22 /\ result = Sys(22, "Invalid argument")

\* C13 as stated: a successful write issues a finish-entry call after every
\* entry and one more after the loop, so that a write that returns Ok has
\* made one finish call more than header writes (and never two header
\* writes without a finish call between them).
C13_FinishAfterEveryEntry ==
    (Returned("write") /\ result.kind = "Ok") => n.finish = n.header + 1
\* C13, amended: write issues no finish-entry call while its loop runs, so
\* none between two header writes; it issues exactly one, after next_header
\* has reported the end of the source and every header write is done, and a
\* write that returns Ok has issued it.
C13_OneFinishAfterLoop ==
    /\ n.finish <= 1
    /\ pc # "idle" => n.finish = 0
    /\ n.finish = 1 => exhausted /\ n.next = n.header + 1
    /\ (Returned("write") /\ result.kind = "Ok") => n.finish = 1
\* A successful write of two entries: two header writes, one finish call.
C13_Witness ==
    /\ Returned("write") /\ result.kind = "Ok"
    /\ n.header = 2 /\ n.finish = 1

\* The loop of write() ended because next_header reported the end.
LoopExhausted == n.next = n.header + 1

\* C14: a write whose loop ended by exhaustion of the source has issued
\* exactly one finish call; it returns Ok with the accumulated byte count if
\* that call returned OK and otherwise Sys with the sink handle's code and
\* message, without the count.  A write that returned earlier (header
\* position, header write, block read or block write) issued none.
C14_FinishDecides ==
    Returned("write") =>
        /\ n.finish = IF LoopExhausted THEN 1 ELSE 0
        /\ (result = HeaderPosition \/ cause \in {"header", "read", "write"})
              => n.finish = 0
        /\ (n.finish = 1 /\ lastSt = "ARCHIVE_OK") => result = OkBytes(eofSum)
        /\ (n.finish = 1 /\ lastSt # "ARCHIVE_OK") =>
              result = Sys(sinkErr.code, sinkErr.msg)
\* A refused finish call after data was copied: the count is dropped.
C14_Witness ==
    /\ Returned("write") /\ n.finish = 1 /\ lastSt = "ARCHIVE_FATAL"
    /\ eofSum > 0 /\ copied > 0 /\ result.kind = "Sys" /\ result.bytes = 0

\* The loop of write() is done with the entry the source last yielded: its
\* header is written and the loop is back at next_header, or past it.
EntryDone ==
    /\ n.header >= 1
    /\ \/ pc = "next" /\ n.header = n.next
       \/ pc = "finish"
       \/ pc = "idle" /\ LoopExhausted

\* C15: for an entry of declared size 0 or less write makes the header write
\* and no block read or block write; for an entry of declared size above 0
\* the data phase runs exactly once, after the entry's header write, and has
\* seen the end of the data when the loop goes on to the next entry.
C15_DataPhasePerEntry ==
    /\ orig.size <= 0 =>
          /\ ent = NoEnt
          /\ pc \notin {"read", "put"}
    /\ ent.phases <= 1
    /\ (ent.oks + ent.puts + ent.eofs > 0 \/ pc \in {"read", "put"}) =>
          ent.phases = 1
    /\ ent.phases = 1 =>
          /\ orig.size > 0
          /\ n.header >= 1 /\ hdr = Rewrite(prefix, orig)
    /\ (EntryDone /\ orig.size > 0) => ent.phases = 1 /\ ent.eofs = 1
    /\ (EntryDone /\ orig.size <= 0) => hdr = Rewrite(prefix, orig)
\* A successful write of an empty entry and then an entry with data: every
\* block read of the call belongs to the second entry's one data phase.
C15_Witness ==
    /\ Returned("write") /\ result.kind = "Ok" /\ n.header = 2
    /\ orig.size > 0 /\ ent.phases = 1 /\ ent.oks >= 1 /\ ent.eofs = 1
    /\ n.read = ent.oks + ent.eofs /\ n.put = ent.puts

\* C16: within the data phase of one entry every block the source returns
\* with OK is passed to the sink once, with the size and offset the source
\* gave, before another block is requested (so in the order received, the
\* sink holding all the source has delivered); the phase ends at the first
\* end of data, after which no block of the entry is read or written.
C16_BlocksForwarded ==
    /\ ent.puts <= ent.oks /\ ent.oks <= ent.puts + 1
    /\ pc = "put" => ent.oks = ent.puts + 1 /\ ent.eofs = 0
    /\ pc = "read" =>
          /\ ent.puts = ent.oks /\ ent.eofs = 0
          /\ ent.oks > 0 =>
                /\ sunk = blk
                /\ sunk.offset + sunk.size = entry.size - remaining
    /\ dataFailed = "write" => sunk.size > 0 /\ ent.puts = ent.oks
    /\ ent.eofs <= 1
    /\ ent.eofs = 1 => pc \notin {"read", "put"} /\ ent.puts = ent.oks
\* The second block of an entry has been written, at offset 1.
C16_Witness ==
    /\ pc = "read" /\ ent.oks = 2 /\ ent.puts = 2
    /\ sunk = [size |-> 1, offset |-> 1] /\ remaining = 0

\* C17: what the data phase of an entry adds to the byte count of write is
\* the size the terminating end-of-data call reported, whatever the blocks
\* added up to: the count, and the total a successful write returns, is the
\* sum of those sizes.
C17_BytesAreEofSizes ==
    /\ pc # "idle" => bytes = eofSum
    /\ (Returned("write") /\ result.kind = "Ok") => result.bytes = eofSum
\* A successful write of two entries whose count differs from what it copied.
C17_Witness ==
    /\ Returned("write") /\ result.kind = "Ok" /\ n.header = 2
    /\ copied > 0 /\ result.bytes > 0 /\ result.bytes # copied

\* C18: a block read that returns neither OK nor the end of data, or a block
\* write that does not return OK, ends write at once (no call is repeated
\* and none follows, the finish call included) with Sys carrying the code
\* and message of the handle of the side that failed: the source's for a
\* read, the sink's for a write.
C18_DataFailureAborts ==
    /\ dataFailed = "read" =>
          /\ pc = "idle" /\ cause = "read" /\ IsErr(result)
          /\ result = Sys(srcErr.code, srcErr.msg)
          /\ n.finish = 0 /\ ent.puts = ent.oks /\ ent.eofs = 0
    /\ dataFailed = "write" =>
          /\ pc = "idle" /\ cause = "write" /\ IsErr(result)
          /\ result = Sys(sinkErr.code, sinkErr.msg)
          /\ n.finish = 0 /\ ent.puts = ent.oks /\ ent.eofs = 0
\* A block read refused after a block was copied, with error 22 on the
\* source's handle and none on the sink's.
C18_Witness ==
    /\ dataFailed = "read" /\ Returned("write") /\ ent.puts >= 1
    /\ srcErr.code = 22 /\ sinkErr.code = 0
    /\ result = Sys(22, "Invalid argument")

\* C19: every call of write returns, with Ok or with an error: a running
\* write (the source being finite and every entry's data ending) leads to
\* a write that has returned.
C19_WriteReturns ==
    (pc # "idle") ~> (pc = "idle" /\ lastOp = "write" /\ result # Running)
\* A write that pulled two entries and copied two blocks has returned Ok.
C19_Witness ==
    /\ Returned("write") /\ result.kind = "Ok"
    /\ n.next = 3 /\ n.put >= 2 /\ n.finish = 1

\* C20: a Builder that can still be called has consumed = false, since
\* open_file sets the flag only on its success path and the Builder it took
\* by value is dropped when it returns; so no operation returns Consumed.
C20_NeverConsumed ==
    /\ builder = "live" => ~consumed
    /\ result # Consumed
\* A configured Builder was opened: the flag is set and the Builder is gone.
C20_Witness ==
    /\ lastOp = "open_file" /\ result = OkUnit /\ nconf >= 1
    /\ consumed /\ builder = "dropped" /\ writer = "live"

====
